---- MODULE Spec2Model ----
(***************************************************************************)
(* A model of fetch_nodes.py: the workflow scanner (parse_workflows), the  *)
(* identifier resolver (DEFAULT_MAP and the loop of main), the extra-repo  *)
(* loader (load_extra_repos) and the repository synchronizer (sync_repo,   *)
(* pip_install, run).                                                      *)
(*                                                                         *)
(* Texts are sequences of symbols.  Identifiers, JSON text and the lines   *)
(* of the extra-repos file are sequences of single characters; a URL or a  *)
(* path is a sequence of its segments and separators, since the program    *)
(* only ever looks at a URL's last segment and its ".git" suffix.          *)
(***************************************************************************)
EXTENDS Integers, Sequences, FiniteSets, TLC

VARIABLES
    args,          \* the parsed command line: workflows, extra_repos_file, pip
    environ,       \* os.environ.get('PIP_EXEC')
    wf_dir,        \* the workflow directory on disk: exists, files
    extra_file,    \* the extra-repos file on disk: exists, text
    pip_on_disk,   \* the installer paths that exist on disk
    checkouts,     \* the checkout directories that exist under --target
    pip_exec,      \* main's pip_exec
    pending,       \* parse_workflows: the *.json files glob has not yielded yet
    cnrset,        \* parse_workflows: the set cnrs
    cnrs,          \* main's cnrs, the list parse_workflows returned
    extra,         \* main's extra, the list load_extra_repos returned
    missing_map,   \* main's missing_map
    log,           \* the NO REPO MAPPING records and the final report lines
    pc,            \* the position in main / parse_workflows / sync_repo
    phase,         \* which loop of main called sync_repo: "cnrs" or "extra"
    i,             \* the index of the current element of that loop
    cur,           \* the sync_repo call in progress, or the last one made
    calls,         \* every sync_repo call made so far: id, url, result
    exit_status    \* the exit status of the process once it has ended

vars == <<args, environ, wf_dir, extra_file, pip_on_disk, checkouts, pip_exec,
          pending, cnrset, cnrs, extra, missing_map, log, pc, phase, i, cur,
          calls, exit_status>>

(***************************************************************************)
(* Bounds of the model.                                                    *)
(***************************************************************************)
\* Identifiers named by the workflow file of a whole run.
MaxIds == 2
\* Lines of the extra-repos file of a whole run.
MaxExtraLines == 1
\* Workflow files, members per file and characters per value of a scan.
MaxFiles == 2
MaxEntries == 2
MaxValLen == 2
\* Characters of the extra-repos file given to the loader alone.
MaxTextLen == 6

\* Python's None, as a text no identifier, URL or path is equal to.
None == <<"None">>

\* bool(x) of a text or None: None and the empty string are falsy.
Truthy(x) == x /= None /\ x /= <<>>

\* Python's `a or b`.
Or(a, b) == IF Truthy(a) THEN a ELSE b

(***************************************************************************)
(* Characters.                                                             *)
(***************************************************************************)
Upper == <<"A", "B", "C", "D", "E", "F", "G", "H", "I", "J", "K", "L", "M", "N", "O", "P", "Q", "R", "S", "T", "U", "V", "W", "X", "Y", "Z">>

LowerCase == <<"a", "b", "c", "d", "e", "f", "g", "h", "i", "j", "k", "l", "m", "n", "o", "p", "q", "r", "s", "t", "u", "v", "w", "x", "y", "z">>

\* The characters of the model in code point order; "U+00E9" stands for a
\* character outside ASCII.
CodeOrder ==
    <<" ", "\"", "#", ",", "-", "0", "1", "2", "3", "4", "5", "6", "7", "8", "9", ":", "A", "B", "C", "D", "E", "F", "G", "H", "I", "J", "K", "L", "M", "N", "O", "P", "Q", "R", "S", "T", "U", "V", "W", "X", "Y", "Z", "[", "\\", "]", "_", "a", "b", "c", "d", "e", "f", "g", "h", "i", "j", "k", "l", "m", "n", "o", "p", "q", "r", "s", "t", "u", "v", "w", "x", "y", "z", "{", "}", "U+00E9">>

Ord(ch) == CHOOSE n \in 1..Len(CodeOrder) : CodeOrder[n] = ch

\* str.lower() on one character.
LowerChar(ch) ==
    IF \E n \in 1..Len(Upper) : Upper[n] = ch
    THEN LowerCase[CHOOSE n \in 1..Len(Upper) : Upper[n] = ch]
    ELSE ch

\* str.lower()
Lower(s) == [n \in 1..Len(s) |-> LowerChar(s[n])]

\* `sub in s`
Contains(sub, s) ==
    \E n \in 1..(Len(s) - Len(sub) + 1) : SubSeq(s, n, n + Len(sub) - 1) = sub

\* s < t for two strings, as sorted() compares them.
LessText(s, t) ==
    \E n \in 1..(Len(t)) :
        /\ n <= Len(s) + 1
        /\ SubSeq(s, 1, n - 1) = SubSeq(t, 1, n - 1)
        /\ \/ n = Len(s) + 1
           \/ n <= Len(s) /\ Ord(s[n]) < Ord(t[n])

RECURSIVE sorted(_)
\* sorted(cnrs) of a set of strings.
sorted(S) ==
    IF S = {} THEN <<>>
    ELSE LET m == CHOOSE x \in S : \A y \in S \ {x} : LessText(x, y)
         IN  <<m>> \o sorted(S \ {m})

(***************************************************************************)
(* The static mapping and the resolver.                                    *)
(***************************************************************************)
DEFAULT_MAP ==
    (<<"c", "o", "m", "f", "y", "u", "i", "-", "k", "j", "n", "o", "d", "e", "s">> :> <<"https://github.com", "/", "kijai", "/", "ComfyUI-KJNodes", ".git">>) @@
    (<<"r", "g", "t", "h", "r", "e", "e", "-", "c", "o", "m", "f", "y">> :> <<"https://github.com", "/", "rgthree", "/", "rgthree-comfy", ".git">>) @@
    (<<"c", "g", "-", "u", "s", "e", "-", "e", "v", "e", "r", "y", "w", "h", "e", "r", "e">> :> <<"https://github.com", "/", "chrisgoringe", "/", "cg-use-everywhere", ".git">>) @@
    (<<"w", "a", "s", "-", "n", "o", "d", "e", "-", "s", "u", "i", "t", "e", "-", "c", "o", "m", "f", "y", "u", "i">> :> <<"https://github.com", "/", "WASasquatch", "/", "was-node-suite-comfyui", ".git">>) @@
    (<<"c", "o", "m", "f", "y", "u", "i", "-", "f", "l", "o", "r", "e", "n", "c", "e", "2">> :> <<"https://github.com", "/", "kijai", "/", "ComfyUI-Florence2", ".git">>) @@
    (<<"c", "o", "m", "f", "y", "u", "i", "-", "f", "r", "a", "m", "e", "-", "i", "n", "t", "e", "r", "p", "o", "l", "a", "t", "i", "o", "n">> :> <<"https://github.com", "/", "Fannovel16", "/", "ComfyUI-Frame-Interpolation", ".git">>) @@
    (<<"c", "o", "m", "f", "y", "u", "i", "_", "e", "s", "s", "e", "n", "t", "i", "a", "l", "s">> :> <<"https://github.com", "/", "cubiq", "/", "ComfyUI_essentials", ".git">>) @@
    (<<"c", "o", "m", "f", "y", "u", "i", "-", "v", "i", "d", "e", "o", "h", "e", "l", "p", "e", "r", "s", "u", "i", "t", "e">> :> <<"https://github.com", "/", "Kosinkadink", "/", "ComfyUI-VideoHelperSuite", ".git">>) @@
    (<<"c", "o", "m", "f", "y", "u", "i", "-", "c", "r", "y", "s", "t", "o", "o", "l", "s">> :> <<"https://github.com", "/", "rgthree", "/", "comfyui-crystools", ".git">>) @@
    (<<"c", "o", "m", "f", "y", "u", "i", "_", "t", "i", "n", "y", "t", "e", "r", "r", "a", "n", "o", "d", "e", "s">> :> <<"https://github.com", "/", "comfyanonymous", "/", "comfyui_tinyterranodes", ".git">>) @@
    (<<"t", "e", "a", "c", "a", "c", "h", "e">> :> <<"https://github.com", "/", "welltop-cn", "/", "ComfyUI-TeaCache", ".git">>) @@
    (<<"c", "r", "t", "-", "n", "o", "d", "e", "s">> :> <<"https://github.com", "/", "ComfyUI-Community", "/", "CRT-Nodes", ".git">>) @@
    (<<"c", "o", "m", "f", "y", "u", "i", "-", "c", "h", "i", "b", "i", "-", "n", "o", "d", "e", "s">> :> <<"https://github.com", "/", "erred-io", "/", "ComfyUI-Chibi-Nodes", ".git">>) @@
    (<<"c", "o", "m", "f", "y", "u", "i", "-", "g", "g", "u", "f">> :> <<"https://github.com", "/", "erred-io", "/", "ComfyUI-GGUF", ".git">>) @@
    (<<"a", "e", "g", "i", "s", "f", "l", "o", "w", "_", "u", "t", "i", "l", "i", "t", "y", "_", "n", "o", "d", "e", "s">> :> <<"https://github.com", "/", "aegisflow", "/", "aegisflow_utility_nodes", ".git">>) @@
    (<<"c", "o", "m", "f", "y", "-", "i", "m", "a", "g", "e", "-", "s", "a", "v", "e", "r">> :> <<"https://github.com", "/", "rgthree", "/", "comfyui-image-saver", ".git">>) @@
    (<<"c", "o", "m", "f", "y", "-", "c", "o", "r", "e">> :> None)

SubRgthree == <<"r", "g", "t", "h", "r", "e", "e">>
SubCrt == <<"c", "r", "t">>
SubCrtNodes == <<"c", "r", "t", "-", "n", "o", "d", "e", "s">>

RgthreeURL == <<"https://github.com", "/", "rgthree", "/", "rgthree-comfy", ".git">>
CrtURL == <<"https://github.com", "/", "ComfyUI-Community", "/", "CRT-Nodes", ".git">>

\* DEFAULT_MAP.get(key)
MapGet(key) == IF key \in DOMAIN DEFAULT_MAP THEN DEFAULT_MAP[key] ELSE None

\* The lookup without the lowercased key.
LookupExactOnly(c) == Or(MapGet(c), None)

\* repo = DEFAULT_MAP.get(key) or DEFAULT_MAP.get(k) or None
Lookup(c) == Or(Or(MapGet(c), MapGet(Lower(c))), None)

\* The smart guesses on the lowercased identifier k.
Guess(k) ==
    IF Contains(SubRgthree, k) THEN RgthreeURL
    ELSE IF Contains(SubCrt, k) \/ Contains(SubCrtNodes, k) THEN CrtURL
    ELSE None

\* The value of repo when main tests `if repo:` for identifier c.
ResolveRepo(c) ==
    LET repo == Lookup(c)
    IN  IF repo = None
        THEN LET guess == Guess(Lower(c))
             IN  IF Truthy(guess) THEN guess ELSE repo
        ELSE repo

(***************************************************************************)
(* sync_repo's directory name.                                             *)
(***************************************************************************)
RECURSIVE basename(_)
\* os.path.basename: what follows the last "/".
basename(url) ==
    IF url = <<>> THEN <<>>
    ELSE IF url[Len(url)] = "/" THEN <<>>
    ELSE basename(SubSeq(url, 1, Len(url) - 1)) \o <<url[Len(url)]>>

\* repo_name = os.path.basename(repo_url).replace('.git', '')
RepoName(url) == SelectSeq(basename(url), LAMBDA seg : seg /= ".git")

(***************************************************************************)
(* load_extra_repos.                                                       *)
(***************************************************************************)
IsSpace(ch) == ch \in {" ", "\t", "\r", "\n"}

RECURSIVE lstrip(_)
lstrip(s) == IF s /= <<>> /\ IsSpace(Head(s)) THEN lstrip(Tail(s)) ELSE s

RECURSIVE rstrip(_)
rstrip(s) ==
    IF s /= <<>> /\ IsSpace(s[Len(s)]) THEN rstrip(SubSeq(s, 1, Len(s) - 1)) ELSE s

\* str.strip()
strip(s) == lstrip(rstrip(s))

\* str.startswith('#')
StartsWithHash(s) == s /= <<>> /\ Head(s) = "#"

RECURSIVE SplitAt(_, _)
\* The pieces of text between line breaks; acc is the piece being read.
SplitAt(text, acc) ==
    IF text = <<>> THEN <<acc>>
    ELSE IF Head(text) = "\n" THEN <<acc>> \o SplitAt(Tail(text), <<>>)
    ELSE SplitAt(Tail(text), Append(acc, Head(text)))

\* str.splitlines(): a final line break opens no further line.
splitlines(text) ==
    LET pieces == SplitAt(text, <<>>)
    IN  IF pieces[Len(pieces)] = <<>>
        THEN SubSeq(pieces, 1, Len(pieces) - 1)
        ELSE pieces

RECURSIVE KeepLinesUnstripped(_)
\* The loop of load_extra_repos testing each line before trimming it.
KeepLinesUnstripped(lines) ==
    IF lines = <<>> THEN <<>>
    ELSE LET line == Head(lines)
         IN  IF strip(line) = <<>> \/ StartsWithHash(line)
             THEN KeepLinesUnstripped(Tail(lines))
             ELSE <<strip(line)>> \o KeepLinesUnstripped(Tail(lines))

RECURSIVE KeepLines(_)
\* The loop of load_extra_repos over the lines of the file.
KeepLines(lines) ==
    IF lines = <<>> THEN <<>>
    ELSE LET line == strip(Head(lines))
         IN  IF line = <<>> \/ StartsWithHash(line)
             THEN KeepLines(Tail(lines))
             ELSE <<line>> \o KeepLines(Tail(lines))

\* load_extra_repos(file_path), reading the file as it is on disk.
load_extra_repos(file_path) ==
    IF ~Truthy(file_path) THEN <<>>
    ELSE IF ~extra_file.exists THEN <<>>
    ELSE KeepLines(splitlines(extra_file.text))

(***************************************************************************)
(* parse_workflows: json.dumps and re.findall.                             *)
(***************************************************************************)
KeyCnrId == <<"c", "n", "r", "_", "i", "d">>
KeyOther == <<"i", "d">>

\* json.dumps of one character of a string (ensure_ascii is on).
Escape(ch) ==
    IF ch = "\"" THEN <<"\\", "\"">>
    ELSE IF ch = "\\" THEN <<"\\", "\\">>
    ELSE IF ch = "U+00E9" THEN <<"\\", "u", "0", "0", "e", "9">>
    ELSE <<ch>>

RECURSIVE EscapeAll(_)
EscapeAll(s) == IF s = <<>> THEN <<>> ELSE Escape(Head(s)) \o EscapeAll(Tail(s))

\* json.dumps of a string.
DumpsStr(s) == <<"\"">> \o EscapeAll(s) \o <<"\"">>

\* json.dumps of a member's value: a string, or a number written as it is.
DumpsVal(v) == IF v.str THEN DumpsStr(v.text) ELSE v.text

\* json.dumps of an object with one member.
DumpsObj(o) == <<"{">> \o DumpsStr(o.key) \o <<":", " ">> \o DumpsVal(o.val) \o <<"}">>

RECURSIVE DumpsItems(_)
DumpsItems(data) ==
    IF data = <<>> THEN <<>>
    ELSE IF Len(data) = 1 THEN DumpsObj(data[1])
    ELSE DumpsObj(data[1]) \o <<",", " ">> \o DumpsItems(Tail(data))

\* txt = json.dumps(data), data being a list of objects.
dumps(data) == <<"[">> \o DumpsItems(data) \o <<"]">>

RECURSIVE SkipSpaces(_, _)
\* \s* from position n: the first position that holds no white space.
SkipSpaces(txt, n) ==
    IF n <= Len(txt) /\ IsSpace(txt[n]) THEN SkipSpaces(txt, n + 1) ELSE n

RECURSIVE SkipNonQuotes(_, _)
\* [^"]* from position n: the first position that holds a double quote.
SkipNonQuotes(txt, n) ==
    IF n <= Len(txt) /\ txt[n] /= "\"" THEN SkipNonQuotes(txt, n + 1) ELSE n

\* The pattern "cnr_id"\s*:\s*"([^"]+)" tried at position n of txt.
MatchAt(txt, n) ==
    LET lit   == DumpsStr(KeyCnrId)
        colon == SkipSpaces(txt, n + Len(lit))
        quote == SkipSpaces(txt, colon + 1)
        close == SkipNonQuotes(txt, quote + 1)
        ok    == /\ n + Len(lit) - 1 <= Len(txt)
                 /\ SubSeq(txt, n, n + Len(lit) - 1) = lit
                 /\ colon <= Len(txt) /\ txt[colon] = ":"
                 /\ quote <= Len(txt) /\ txt[quote] = "\""
                 /\ close > quote + 1
                 /\ close <= Len(txt)
    IN  [ok |-> ok,
         group |-> IF ok THEN SubSeq(txt, quote + 1, close - 1) ELSE <<>>,
         end |-> close + 1]

RECURSIVE findall(_, _)
\* re.findall(pattern, txt) from position n on: the groups of the
\* non-overlapping matches, leftmost first.
findall(txt, n) ==
    IF n > Len(txt) THEN <<>>
    ELSE LET m == MatchAt(txt, n)
         IN  IF m.ok THEN <<m.group>> \o findall(txt, m.end)
             ELSE findall(txt, n + 1)

Range(s) == {s[n] : n \in DOMAIN s}

(***************************************************************************)
(* run, and the bookkeeping of a sync_repo call.                           *)
(***************************************************************************)
\* How an external command can end: exit status zero, a non-zero exit
\* status (CalledProcessError), or the executable cannot be started
\* (FileNotFoundError, PermissionError: an OSError).
Outcomes == {"ok", "failed", "oserror"}

\* run(cmd) for a command that ends with outcome o: True, False after the
\* ERR line, or the exception that the except clause does not name.
run(o) ==
    IF o = "ok" THEN "True"
    ELSE IF o = "failed" THEN "False"
    ELSE "raise"

Git == <<"git">>
Python3 == <<"python3">>
DefaultPip == <<"/", "opt", "/", "venv", "/", "bin", "/", "pip">>

NoCall ==
    [id |-> None, url |-> None, dir |-> None, existed |-> FALSE,
     clone |-> "none", steps |-> <<>>, err |-> FALSE, result |-> "none"]

\* The call in progress after run() was entered for one more command.
Attempt(cmd, exe) == [cur EXCEPT !.steps = Append(@, [cmd |-> cmd, exe |-> exe])]

\* log(f"ERR: command failed: {e}") when run returns False: the call has
\* an ERR line in the log.
Logged(c, r) == IF r = "False" THEN [c EXCEPT !.err = TRUE] ELSE c

\* The exception leaves run, sync_repo and main: the interpreter prints the
\* traceback and the process ends with status 1.
Raise(c) ==
    /\ cur' = [c EXCEPT !.result = "raised"]
    /\ calls' = [calls EXCEPT ![Len(calls)].result = "raised"]
    /\ pc' = "crashed"
    /\ exit_status' = 1
    /\ i' = i

\* sync_repo returns to the loop of main that called it; main ignores the
\* value and goes on to the next element.
Return(c, result) ==
    /\ cur' = [c EXCEPT !.result = result]
    /\ calls' = [calls EXCEPT ![Len(calls)].result = result]
    /\ pc' = IF phase = "cnrs" THEN "resolve" ELSE "extra_loop"
    /\ i' = i + 1
    /\ exit_status' = exit_status

\* main calls sync_repo(url, args.target, pip_exec): repo_name and repo_dir.
BeginSync(id, url) ==
    /\ cur' = [id |-> id, url |-> url, dir |-> RepoName(url),
               existed |-> RepoName(url) \in checkouts,
               clone |-> "none", steps |-> <<>>, err |-> FALSE,
               result |-> "running"]
    /\ calls' = Append(calls, [id |-> id, url |-> url, result |-> "running"])
    /\ pc' = "sync"

(***************************************************************************)
(* main, up to the scan.                                                   *)
(***************************************************************************)
\* The fallback chain taking the first candidate that exists on disk.
PipExecFirstOnDisk ==
    IF Truthy(args.pip) /\ args.pip \in pip_on_disk THEN args.pip
    ELSE IF Truthy(environ) /\ environ \in pip_on_disk THEN environ
    ELSE IF DefaultPip \in pip_on_disk THEN DefaultPip
    ELSE None

\* pip_exec = args.pip or os.environ.get('PIP_EXEC') or "/opt/venv/bin/pip";
\* None if that path does not exist.
PipExec ==
    LET chosen == Or(Or(args.pip, environ), DefaultPip)
    IN  IF chosen \notin pip_on_disk THEN None ELSE chosen

MainStart ==
    /\ pc = "main"
    /\ pip_exec' = PipExec
    /\ IF Truthy(args.workflows)
       THEN pc' = "parse" /\ cnrs' = cnrs
       ELSE pc' = "resolve" /\ cnrs' = <<>>
    /\ UNCHANGED <<args, environ, wf_dir, extra_file, pip_on_disk, checkouts,
                   pending, cnrset, extra, missing_map, log, phase, i, cur,
                   calls, exit_status>>

(***************************************************************************)
(* parse_workflows.                                                        *)
(***************************************************************************)
ParseStart ==
    /\ pc = "parse"
    /\ cnrset' = {}
    /\ IF ~wf_dir.exists
       THEN pc' = "resolve" /\ cnrs' = <<>> /\ pending' = pending
       ELSE pc' = "glob" /\ cnrs' = cnrs /\ pending' = DOMAIN wf_dir.files
    /\ UNCHANGED <<args, environ, wf_dir, extra_file, pip_on_disk, checkouts,
                   pip_exec, extra, missing_map, log, phase, i, cur, calls,
                   exit_status>>

\* What one file adds to cnrs: nothing if json.loads fails, else every
\* group the pattern finds in json.dumps(data).
FoundIn(file) ==
    IF ~file.valid THEN {} ELSE Range(findall(dumps(file.data), 1))

\* One iteration of `for fp in p.glob("*.json")`; glob yields the files in
\* an order the program does not control.
ParseFile ==
    /\ pc = "glob"
    /\ \E fp \in pending :
        /\ cnrset' = cnrset \cup FoundIn(wf_dir.files[fp])
        /\ pending' = pending \ {fp}
    /\ UNCHANGED <<args, environ, wf_dir, extra_file, pip_on_disk, checkouts,
                   pip_exec, cnrs, extra, missing_map, log, pc, phase, i, cur,
                   calls, exit_status>>

\* return sorted(cnrs)
ParseReturn ==
    /\ pc = "glob"
    /\ pending = {}
    /\ cnrs' = sorted(cnrset)
    /\ pc' = "resolve"
    /\ UNCHANGED <<args, environ, wf_dir, extra_file, pip_on_disk, checkouts,
                   pip_exec, pending, cnrset, extra, missing_map, log, phase,
                   i, cur, calls, exit_status>>

(***************************************************************************)
(* main: the loop over cnrs.                                               *)
(***************************************************************************)
MainResolve ==
    /\ pc = "resolve"
    /\ i <= Len(cnrs)
    /\ LET c    == cnrs[i]
           repo == ResolveRepo(c)
       IN  IF Truthy(repo)
           THEN /\ BeginSync(c, repo)
                /\ UNCHANGED <<missing_map, log, i>>
           ELSE /\ log' = Append(log, [kind |-> "NO REPO MAPPING", id |-> c])
                /\ missing_map' = Append(missing_map, c)
                /\ i' = i + 1
                /\ UNCHANGED <<cur, calls, pc>>
    /\ UNCHANGED <<args, environ, wf_dir, extra_file, pip_on_disk, checkouts,
                   pip_exec, pending, cnrset, cnrs, extra, phase, exit_status>>

(***************************************************************************)
(* sync_repo.                                                              *)
(***************************************************************************)
\* `if not os.path.exists(repo_dir)`: the clone.
SyncClone ==
    /\ pc = "sync"
    /\ cur.dir \notin checkouts
    /\ \E o \in Outcomes :
        LET r == run(o)
            c == [Logged(Attempt("clone", Git), r) EXCEPT !.clone = o]
        IN  IF r = "raise" THEN Raise(c) /\ checkouts' = checkouts
            ELSE IF r = "False" THEN Return(c, "False") /\ checkouts' = checkouts
            ELSE /\ cur' = c
                 /\ checkouts' = checkouts \cup {cur.dir}
                 /\ pc' = "fetch"
                 /\ UNCHANGED <<calls, i, exit_status>>
    /\ UNCHANGED <<args, environ, wf_dir, extra_file, pip_on_disk, pip_exec,
                   pending, cnrset, cnrs, extra, missing_map, log, phase>>

\* else: PRESENT.
SyncPresent ==
    /\ pc = "sync"
    /\ cur.dir \in checkouts
    /\ pc' = "fetch"
    /\ UNCHANGED <<args, environ, wf_dir, extra_file, pip_on_disk, checkouts,
                   pip_exec, pending, cnrset, cnrs, extra, missing_map, log,
                   phase, i, cur, calls, exit_status>>

\* One of the four `run(f"git -C ...")` statements: its value is dropped.
GitStep(here, cmd, next) ==
    /\ pc = here
    /\ \E o \in Outcomes :
        LET r == run(o)
            c == Logged(Attempt(cmd, Git), r)
        IN  IF r = "raise" THEN Raise(c)
            ELSE cur' = c /\ pc' = next /\ UNCHANGED <<calls, i, exit_status>>
    /\ UNCHANGED <<args, environ, wf_dir, extra_file, pip_on_disk, checkouts,
                   pip_exec, pending, cnrset, cnrs, extra, missing_map, log,
                   phase>>

SyncFetch == GitStep("fetch", "fetch", "pull")

SyncPull == GitStep("pull", "pull", "submodule sync")

SyncSubmoduleSync == GitStep("submodule sync", "submodule sync", "submodule update")

SyncSubmoduleUpdate == GitStep("submodule update", "submodule update", "requirements")

\* The command pip_install(pip_exec, req_path) runs.
PipCommand(pip) ==
    IF Truthy(pip) /\ pip \in pip_on_disk
    THEN [cmd |-> "pip install", exe |-> pip]
    ELSE [cmd |-> "-m pip install", exe |-> Python3]

\* `if os.path.exists(req)`: pip_install; a failure is a WARN line.
SyncRequirements ==
    /\ pc = "requirements"
    /\ \E present \in BOOLEAN, o \in Outcomes :
        IF ~present
        THEN pc' = "install_py" /\ UNCHANGED <<cur, calls, i, exit_status>>
        ELSE LET p == PipCommand(pip_exec)
                 r == run(o)
                 c == Logged(Attempt(p.cmd, p.exe), r)
             IN  IF r = "raise" THEN Raise(c)
                 ELSE /\ cur' = c
                      /\ pc' = "install_py"
                      /\ UNCHANGED <<calls, i, exit_status>>
    /\ UNCHANGED <<args, environ, wf_dir, extra_file, pip_on_disk, checkouts,
                   pip_exec, pending, cnrset, cnrs, extra, missing_map, log,
                   phase>>

\* `if os.path.exists(install_py)`: python3 install.py; then return True.
SyncInstallPy ==
    /\ pc = "install_py"
    /\ \E present \in BOOLEAN, o \in Outcomes :
        IF ~present
        THEN Return(cur, "True")
        ELSE LET r == run(o)
                 c == Logged(Attempt("install.py", Python3), r)
             IN  IF r = "raise" THEN Raise(c) ELSE Return(c, "True")
    /\ UNCHANGED <<args, environ, wf_dir, extra_file, pip_on_disk, checkouts,
                   pip_exec, pending, cnrset, cnrs, extra, missing_map, log,
                   phase>>

(***************************************************************************)
(* main: the extra repos and the final report.                             *)
(***************************************************************************)
\* extra = load_extra_repos(args.extra_repos_file), once the loop over cnrs
\* has ended.
MainLoadExtra ==
    /\ pc = "resolve"
    /\ i > Len(cnrs)
    /\ extra' = load_extra_repos(args.extra_repos_file)
    /\ phase' = "extra"
    /\ i' = 1
    /\ pc' = "extra_loop"
    /\ UNCHANGED <<args, environ, wf_dir, extra_file, pip_on_disk, checkouts,
                   pip_exec, pending, cnrset, cnrs, missing_map, log, cur,
                   calls, exit_status>>

\* for r in extra: sync_repo(r, ...)
MainExtra ==
    /\ pc = "extra_loop"
    /\ i <= Len(extra)
    /\ BeginSync(None, extra[i])
    /\ UNCHANGED <<args, environ, wf_dir, extra_file, pip_on_disk, checkouts,
                   pip_exec, pending, cnrset, cnrs, extra, missing_map, log,
                   phase, i, exit_status>>

\* The lines " - m" of the final report.
ReportLines(m) == [n \in 1..Len(m) |-> [kind |-> "REPORT", id |-> m[n]]]

\* `if missing_map:` the report; main returns and the process ends.
MainReport ==
    /\ pc = "extra_loop"
    /\ i > Len(extra)
    /\ log' = IF missing_map /= <<>> THEN log \o ReportLines(missing_map) ELSE log
    /\ pc' = "done"
    /\ exit_status' = 0
    /\ UNCHANGED <<args, environ, wf_dir, extra_file, pip_on_disk, checkouts,
                   pip_exec, pending, cnrset, cnrs, extra, missing_map, phase,
                   i, cur, calls>>

Next ==
    \/ MainStart
    \/ ParseStart
    \/ ParseFile
    \/ ParseReturn
    \/ MainResolve
    \/ SyncClone
    \/ SyncPresent
    \/ SyncFetch
    \/ SyncPull
    \/ SyncSubmoduleSync
    \/ SyncSubmoduleUpdate
    \/ SyncRequirements
    \/ SyncInstallPy
    \/ MainLoadExtra
    \/ MainExtra
    \/ MainReport

(***************************************************************************)
(* The inputs of a run.                                                    *)
(***************************************************************************)
SeqsUpTo(S, n) == UNION {[1..k -> S] : k \in 0..n}

WfPath == <<"/", "ComfyUI", "/", "workflows">>
ExtraPath == <<"/", "usr", "/", "local", "/", "bin", "/", "default_repos.txt">>
PipArgPath == <<"/", "build", "/", "bin", "/", "pip">>
PipEnvPath == <<"/", "env", "/", "bin", "/", "pip">>

IdRgthree == <<"r", "g", "t", "h", "r", "e", "e", "-", "c", "o", "m", "f", "y">>
IdKJNodes == <<"C", "o", "m", "f", "y", "U", "I", "-", "K", "J", "N", "o", "d", "e", "s">>
IdCrtNodes == <<"C", "R", "T", "-", "N", "o", "d", "e", "s">>
IdCore == <<"c", "o", "m", "f", "y", "-", "c", "o", "r", "e">>
IdBoth == <<"c", "r", "t", "-", "r", "g", "t", "h", "r", "e", "e">>
IdCrtPack == <<"C", "r", "t", "-", "P", "a", "c", "k">>
IdUnknown == <<"F", "o", "o">>

\* An exact key, a key after lowercasing, a key that "crt" also matches, the
\* built-in identifier, two identifiers only the heuristics know, an unknown one.
AllIds == {IdRgthree, IdKJNodes, IdCrtNodes, IdCore, IdBoth, IdCrtPack, IdUnknown}

\* The identifiers of the runs that vary the rest of the input.
FewIds == {IdRgthree, IdKJNodes, IdCore, IdUnknown}

\* A repository of the extra-repos file that no identifier maps to, and
\* another URL of the directory name rgthree-comfy.
ExtraNodeURL == <<"https://github.com", "/", "someone", "/", "extra-node", ".git">>
RgthreeForkURL == <<"https://example.org", "/", "fork", "/", "rgthree-comfy">>

StrVal(text) == [str |-> TRUE, text |-> text]
NumVal == [str |-> FALSE, text |-> <<"1">>]
Obj(key, val) == [key |-> key, val |-> val]

ValidFile(data) == [valid |-> TRUE, data |-> data]
InvalidFile == [valid |-> FALSE, data |-> <<>>]

NoDir == [exists |-> FALSE, files |-> <<>>]
NoFile == [exists |-> FALSE, text |-> <<>>]

\* No --workflows; a directory that does not exist; a directory with one
\* file that does not parse; a directory with one file naming up to n of ids.
RunWorkflows(ids, n) ==
    {[arg |-> None, dir |-> NoDir], [arg |-> WfPath, dir |-> NoDir],
     [arg |-> WfPath, dir |-> [exists |-> TRUE, files |-> <<InvalidFile>>]]}
    \cup {[arg |-> WfPath,
           dir |-> [exists |-> TRUE,
                    files |-> <<ValidFile([k \in 1..Len(s) |->
                                  Obj(KeyCnrId, StrVal(s[k]))])>>]] :
          s \in SeqsUpTo(ids, n)}

RECURSIVE JoinLines(_)
JoinLines(lines) ==
    IF lines = <<>> THEN <<>>
    ELSE Head(lines) \o <<"\n">> \o JoinLines(Tail(lines))

RunLines == {RgthreeURL, <<" ">> \o ExtraNodeURL \o <<" ">>, <<"#", " ">> \o RgthreeForkURL,
             RgthreeForkURL}

\* No --extra-repos-file; a file that does not exist; a file of up to n lines.
RunExtras(n) ==
    {[arg |-> None, file |-> NoFile], [arg |-> ExtraPath, file |-> NoFile]}
    \cup {[arg |-> ExtraPath, file |-> [exists |-> TRUE, text |-> JoinLines(ls)]] :
          ls \in SeqsUpTo(RunLines, n)}

\* --pip given or not, PIP_EXEC set or not, and what is on disk.
AllPips ==
    [arg : {None, PipArgPath}, env : {None, PipEnvPath},
     disk : SUBSET {PipArgPath, PipEnvPath, DefaultPip}]

FewPips ==
    {[arg |-> None, env |-> None, disk |-> {DefaultPip}],
     [arg |-> PipArgPath, env |-> None, disk |-> {PipArgPath}],
     [arg |-> None, env |-> None, disk |-> {}]}

InitOf(W, X, P, C) ==
    /\ \E w \in W : args \in {[workflows |-> w.arg, extra_repos_file |-> x.arg,
                               pip |-> p.arg] : x \in X, p \in P}
                    /\ wf_dir = w.dir
    /\ \E x \in X : extra_file = x.file /\ args.extra_repos_file = x.arg
    /\ \E p \in P : environ = p.env /\ pip_on_disk = p.disk /\ args.pip = p.arg
    /\ checkouts \in C
    /\ pip_exec = None
    /\ pending = {}
    /\ cnrset = {}
    /\ cnrs = <<>>
    /\ extra = <<>>
    /\ missing_map = <<>>
    /\ log = <<>>
    /\ pc = "main"
    /\ phase = "cnrs"
    /\ i = 1
    /\ cur = NoCall
    /\ calls = <<>>
    /\ exit_status = -1

SomeCheckouts == SUBSET {<<"rgthree-comfy">>}

OneWorkflow ==
    {[arg |-> WfPath,
      dir |-> [exists |-> TRUE,
               files |-> <<ValidFile(<<Obj(KeyCnrId, StrVal(IdRgthree))>>)>>]]}

OneExtra ==
    {[arg |-> ExtraPath, file |-> [exists |-> TRUE, text |-> JoinLines(<<RgthreeURL>>)]]}

OnePip == {[arg |-> None, env |-> None, disk |-> {DefaultPip}]}

\* Whole runs in which every part of the input varies a little.
Init ==
    InitOf(RunWorkflows(FewIds, MaxIds), RunExtras(MaxExtraLines), FewPips, SomeCheckouts)

\* Whole runs over all the identifiers.
InitIds == InitOf(RunWorkflows(AllIds, MaxIds), OneExtra, OnePip, {{}})

\* Whole runs over all the installer settings.
InitPips == InitOf(OneWorkflow, OneExtra, AllPips, SomeCheckouts)

Spec == Init /\ [][Next]_vars

SpecIds == InitIds /\ [][Next]_vars

SpecPips == InitPips /\ [][Next]_vars

(***************************************************************************)
(* The scanner alone: main up to the return of parse_workflows, over       *)
(* directories of files whose cnr_id values hold any characters.           *)
(***************************************************************************)
ScanChars == {"a", "\"", "U+00E9"}

ScanObjs ==
    {Obj(KeyCnrId, StrVal(v)) : v \in SeqsUpTo(ScanChars, MaxValLen)}
    \cup {Obj(KeyCnrId, NumVal), Obj(KeyOther, StrVal(<<"a">>))}

ScanFiles == {InvalidFile} \cup {ValidFile(d) : d \in SeqsUpTo(ScanObjs, MaxEntries)}

ScanWorkflows ==
    {[arg |-> WfPath, dir |-> NoDir]}
    \cup {[arg |-> WfPath, dir |-> [exists |-> TRUE, files |-> fs]] :
          fs \in SeqsUpTo(ScanFiles, MaxFiles)}

InitScan ==
    InitOf(ScanWorkflows, {[arg |-> None, file |-> NoFile]}, OnePip, {{}})

NextScan == MainStart \/ ParseStart \/ ParseFile \/ ParseReturn

SpecScan == InitScan /\ [][NextScan]_vars

(***************************************************************************)
(* The loader alone: main without --workflows up to the return of          *)
(* load_extra_repos, over files of any characters.                         *)
(***************************************************************************)
TextChars == {"\n", " ", "#", "u"}

LoaderExtras ==
    {[arg |-> None, file |-> NoFile], [arg |-> ExtraPath, file |-> NoFile],
     [arg |-> <<>>, file |-> NoFile]}
    \cup {[arg |-> ExtraPath, file |-> [exists |-> TRUE, text |-> t]] :
          t \in SeqsUpTo(TextChars, MaxTextLen)}

InitLoader ==
    InitOf({[arg |-> None, dir |-> NoDir]}, LoaderExtras, OnePip, {{}})

NextLoader == MainStart \/ MainLoadExtra

SpecLoader == InitLoader /\ [][NextLoader]_vars

(***************************************************************************)
(* What the properties below read off a state.                             *)
(***************************************************************************)
Cmds(c) == [n \in 1..Len(c.steps) |-> c.steps[n].cmd]

IsPrefix(s, t) == Len(s) <= Len(t) /\ SubSeq(t, 1, Len(s)) = s

UpdateSteps == <<"fetch", "pull", "submodule sync", "submodule update">>

\* sync_repo has been left, by a return or by an exception.
Ended(c) == c.result \in {"True", "False", "raised"}

\* The process has ended.
Terminated == exit_status /= -1

\* The URL the static mapping gives identifier c, under its exact or its
\* lowercased form; None if neither is a key mapped to a URL.
MappedURL(c) ==
    IF c \in DOMAIN DEFAULT_MAP /\ DEFAULT_MAP[c] /= None THEN DEFAULT_MAP[c]
    ELSE IF Lower(c) \in DOMAIN DEFAULT_MAP /\ DEFAULT_MAP[Lower(c)] /= None
         THEN DEFAULT_MAP[Lower(c)]
    ELSE None

HasHeuristic(c) == Contains(SubRgthree, Lower(c)) \/ Contains(SubCrt, Lower(c))

\* Absent from the mapping in both forms, and no heuristic substring.
Unmapped(c) ==
    /\ c \notin DOMAIN DEFAULT_MAP
    /\ Lower(c) \notin DOMAIN DEFAULT_MAP
    /\ ~HasHeuristic(c)

\* The identifiers of the final report.
Reported == {log[n].id : n \in {m \in 1..Len(log) : log[m].kind = "REPORT"}}

\* The identifiers that got a NO REPO MAPPING record.
NoMapping == {log[n].id : n \in {m \in 1..Len(log) : log[m].kind = "NO REPO MAPPING"}}

\* The identifier at position n of cnrs has been through the loop of main.
Processed(n) == phase = "extra" \/ n < i

(***************************************************************************)
(* C1: a sync_repo call that finds no checkout attempts the clone first,   *)
(* and if the clone fails, by a non-zero exit status or by git not         *)
(* starting, the call returns False with no further step attempted.        *)
(***************************************************************************)
C1_FailedCloneReturnsFalse ==
    /\ (~cur.existed /\ cur.steps /= <<>>) => cur.steps[1].cmd = "clone"
    /\ cur.clone \in {"failed", "oserror"} =>
           /\ Cmds(cur) = <<"clone">>
           /\ cur.result = "False"

(***************************************************************************)
(* C2: a sync_repo call that finds the checkout attempts no clone, attempts*)
(* fetch, pull, submodule sync, submodule update in that order whatever    *)
(* failed before, and returns True whatever the later steps did.           *)
(***************************************************************************)
C2_ExistingCheckoutReturnsTrue ==
    cur.existed =>
        /\ \A n \in 1..Len(cur.steps) : cur.steps[n].cmd /= "clone"
        /\ \/ IsPrefix(Cmds(cur), UpdateSteps)
           \/ IsPrefix(UpdateSteps, Cmds(cur))
        /\ Ended(cur) => /\ IsPrefix(UpdateSteps, Cmds(cur))
                         /\ cur.result = "True"

(***************************************************************************)
(* C3: the built-in identifier comfy-core, mapped to None, is skipped      *)
(* without being treated as unresolved: no repository is synchronised for  *)
(* it, it gets no NO REPO MAPPING record and it is not in the final report.*)
(***************************************************************************)
C3_CoreIdentifierSkipped ==
    /\ \A n \in 1..Len(calls) : calls[n].id /= IdCore
    /\ IdCore \notin NoMapping
    /\ IdCore \notin Range(missing_map)
    /\ IdCore \notin Reported

(***************************************************************************)
(* C4: whichever way an external command fails, no exception leaves the    *)
(* repository loop: the call goes on or returns, and the process ends with *)
(* exit status zero.                                                       *)
(***************************************************************************)
C4_NoExceptionPropagates ==
    /\ cur.result /= "raised"
    /\ pc /= "crashed"
    /\ Terminated => exit_status = 0

(***************************************************************************)
(* C5: every sync_repo call made for an identifier uses the URL the static *)
(* mapping gives its exact or lowercased form, if there is one, and        *)
(* otherwise the URL of the first heuristic ("rgthree", then "crt") that   *)
(* the lowercased identifier contains; and every identifier the mapping    *)
(* gives a URL is synchronised with that URL once the loop has passed it.  *)
(***************************************************************************)
C5_ResolutionOrder ==
    /\ \A n \in 1..Len(calls) :
          calls[n].id /= None =>
              LET c == calls[n].id
              IN  IF MappedURL(c) /= None THEN calls[n].url = MappedURL(c)
                  ELSE IF Contains(SubRgthree, Lower(c)) THEN calls[n].url = RgthreeURL
                  ELSE Contains(SubCrt, Lower(c)) /\ calls[n].url = CrtURL
    /\ \A n \in 1..Len(cnrs) :
          (Processed(n) /\ MappedURL(cnrs[n]) /= None) =>
              \E k \in 1..Len(calls) :
                  calls[k].id = cnrs[n] /\ calls[k].url = MappedURL(cnrs[n])

\* The loop over cnrs has ended having synchronised an identifier found by
\* its lowercased form, one that is a key and also contains "crt", or one
\* that contains both heuristic substrings.
C5_Witness ==
    /\ phase = "extra"
    /\ \E n \in 1..Len(calls) :
          \/ calls[n].id = IdKJNodes /\ calls[n].url = DEFAULT_MAP[Lower(IdKJNodes)]
          \/ calls[n].id = IdBoth /\ calls[n].url = RgthreeURL

(***************************************************************************)
(* C6: when the process has ended, every scanned identifier that is absent *)
(* from the mapping and contains no heuristic substring is in the final    *)
(* report and was never synchronised, and no identifier that resolved to a *)
(* URL is in the report.                                                   *)
(***************************************************************************)
C6_UnresolvedAreReported ==
    Terminated =>
        /\ \A c \in Range(cnrs) :
              Unmapped(c) =>
                  /\ c \in Reported
                  /\ \A n \in 1..Len(calls) : calls[n].id /= c
        /\ \A c \in Range(cnrs) : Truthy(ResolveRepo(c)) => c \notin Reported

(***************************************************************************)
(* C7: repositories are processed one at a time in discovery order: the    *)
(* calls made so far are the first of the list "URLs of the resolved       *)
(* identifiers in sorted order, then the extra entries in file order", all *)
(* but the last have ended, and when the process has ended the whole list  *)
(* has been processed, whatever failed.                                    *)
(***************************************************************************)
ResolvedURLs ==
    LET hit == SelectSeq(cnrs, LAMBDA c : Truthy(ResolveRepo(c)))
    IN  [n \in 1..Len(hit) |-> ResolveRepo(hit[n])]

DiscoveryOrder == ResolvedURLs \o load_extra_repos(args.extra_repos_file)

C7_OneAtATimeInDiscoveryOrder ==
    /\ \A n \in 1..(Len(calls) - 1) : calls[n].result \in {"True", "False"}
    /\ pc \notin {"main", "parse", "glob"} =>
           IsPrefix([n \in 1..Len(calls) |-> calls[n].url], DiscoveryOrder)
    /\ Terminated => Len(calls) = Len(DiscoveryOrder)

(***************************************************************************)
(* C8 as stated: the installer invoked is the first given of --pip,        *)
(* PIP_EXEC and the default path and exists on disk; python3 -m pip is     *)
(* used only if none of these exists on disk.                              *)
(***************************************************************************)
Selected == IF Truthy(args.pip) THEN args.pip
            ELSE IF Truthy(environ) THEN environ
            ELSE DefaultPip

Candidates == {p \in {args.pip, environ, DefaultPip} : Truthy(p)}

PathInvokedIsSelected ==
    \A n \in 1..Len(cur.steps) :
        cur.steps[n].cmd = "pip install" =>
            /\ cur.steps[n].exe = Selected
            /\ cur.steps[n].exe \in pip_on_disk

C8_ModuleOnlyIfNoneOnDisk ==
    /\ PathInvokedIsSelected
    /\ \A n \in 1..Len(cur.steps) :
          cur.steps[n].cmd = "-m pip install" => Candidates \cap pip_on_disk = {}

(***************************************************************************)
(* C8 amended: the installer path is the first given of --pip, PIP_EXEC    *)
(* and the default path; that one path is invoked if it exists on disk,    *)
(* and python3 -m pip is used exactly when that one path does not exist,   *)
(* even if a later candidate of the chain does; a path that does not exist *)
(* is never invoked.                                                       *)
(***************************************************************************)
C8_ModuleIfSelectedNotOnDisk ==
    /\ PathInvokedIsSelected
    /\ \A n \in 1..Len(cur.steps) :
          cur.steps[n].cmd = "-m pip install" => Selected \notin pip_on_disk

\* python3 -m pip has run although the default path exists, the path given
\* by --pip being absent.
C8_Witness ==
    /\ \E n \in 1..Len(cur.steps) : cur.steps[n].cmd = "-m pip install"
    /\ args.pip = PipArgPath
    /\ PipArgPath \notin pip_on_disk
    /\ DefaultPip \in pip_on_disk

(***************************************************************************)
(* C9: parse_workflows returns exactly the distinct cnr_id string values   *)
(* of the files that parse, sorted and without duplicates; files that do   *)
(* not parse add nothing; a directory that does not exist gives [].  A     *)
(* value is read as an identifier, a string of at least one character.     *)
(***************************************************************************)
CnrIdValues ==
    IF ~wf_dir.exists THEN {}
    ELSE UNION {{f.data[n].val.text :
                    n \in {m \in 1..Len(f.data) :
                              /\ f.data[m].key = KeyCnrId
                              /\ f.data[m].val.str
                              /\ f.data[m].val.text /= <<>>}} :
                f \in {g \in Range(wf_dir.files) : g.valid}}

C9_ScannerReturnsTheValues ==
    pc = "resolve" =>
        /\ Range(cnrs) = CnrIdValues
        /\ \A n \in 1..(Len(cnrs) - 1) : LessText(cnrs[n], cnrs[n + 1])

(***************************************************************************)
(* C10: load_extra_repos returns, in file order, the trimmed lines of the  *)
(* file that are not blank and do not start with '#', duplicates kept; no  *)
(* path argument or no file gives the empty list.                          *)
(***************************************************************************)
TrimmedLines ==
    LET lines == splitlines(extra_file.text)
    IN  [n \in 1..Len(lines) |-> strip(lines[n])]

C10_LoaderReturnsTheLines ==
    pc = "extra_loop" =>
        IF args.extra_repos_file \in {None, <<>>} \/ ~extra_file.exists
        THEN extra = <<>>
        ELSE extra = SelectSeq(TrimmedLines, LAMBDA l : l /= <<>> /\ l[1] /= "#")

\* Two entries were loaded from a file that also holds a blank line and a
\* comment line.
C10_Witness ==
    /\ pc = "extra_loop"
    /\ Len(extra) = 2
    /\ \E n \in 1..Len(TrimmedLines) : TrimmedLines[n] = <<>>
    /\ \E n \in 1..Len(TrimmedLines) : StartsWithHash(TrimmedLines[n])
====
